---- MODULE Spec2Model ----
(***************************************************************************)
(* Model of crates/sandbox/src/main.rs: tracking a struct declaration      *)
(* backwards through the history of one file.                              *)
(*                                                                         *)
(* Text is modelled at byte granularity.  A byte is one of the strings     *)
(* below; "S" stands for the header of the tracked struct (the needle      *)
(* "struct Foobar" up to its opening brace), "E" for the closing brace,    *)
(* "a" and "b" for one field each, "x" and "y" for unrelated text and NL   *)
(* for the line feed.  A blob is a sequence of lines, every line ending    *)
(* in NL; its content is the concatenation of its lines.                   *)
(*                                                                         *)
(* A usize that wrapped below zero is represented by the negative integer  *)
(* v - 2^64; all comparisons of usize values go through ULt / ULe, which   *)
(* order the representatives as the unsigned values are ordered.           *)
(***************************************************************************)
EXTENDS Integers, Sequences, FiniteSets, TLC

\* Bounds of the model.
MaxCommits == 3
MaxLines == 2

NL == "nl"

\* Lines of text the files of the modelled histories are made of.
X == <<"x", NL>>
Y == <<"y", "y", NL>>
S0 == <<"S", "E", NL>>
SA == <<"S", "a", "E", NL>>
SAB == <<"S", "a", "b", "E", NL>>

FieldBytes == {"a", "b"}

Range(s) == {s[i] : i \in 1..Len(s)}

RECURSIVE Flatten(_)
Flatten(ls) == IF ls = <<>> THEN <<>> ELSE Head(ls) \o Flatten(Tail(ls))

\* A tree entry for the tracked path: absent, or a blob.
NoFile == [present |-> FALSE, lines |-> <<>>]
File(ls) == [present |-> TRUE, lines |-> ls]

\* Blob::content
Content(blob) == Flatten(blob.lines)

\* str::find and str::rfind for a one-byte pattern, 0-based, -1 for None.
Find(s, b) ==
    IF \E i \in 1..Len(s) : s[i] = b
    THEN (CHOOSE i \in 1..Len(s) : s[i] = b /\ \A j \in 1..(i - 1) : s[j] # b) - 1
    ELSE -1

RFind(s, b) ==
    IF \E i \in 1..Len(s) : s[i] = b
    THEN (CHOOSE i \in 1..Len(s) : s[i] = b /\ \A j \in (i + 1)..Len(s) : s[j] # b) - 1
    ELSE -1

\* &s[from..to] with 0-based byte offsets.
Slice(s, from, to) == SubSeq(s, from + 1, to)

find_start_end(content, needle) ==
    LET s0 == Find(content, needle) IN
    IF s0 = -1 THEN [some |-> FALSE, start |-> 0, end |-> 0]
    ELSE LET e == Find(Slice(content, s0, Len(content)), "E") IN
         IF e = -1 THEN [some |-> FALSE, start |-> 0, end |-> 0]
         ELSE LET r == RFind(Slice(content, 0, s0 + 1), NL)
              IN [some |-> TRUE,
                  start |-> IF r = -1 THEN s0 ELSE r,
                  end |-> s0 + e + 1]

\* syn::parse_str::<ItemStruct> followed by fields.to_token_stream().to_string():
\* white space is dropped, the rest must be the header, fields, the closing brace;
\* the signature is the field list.
Tokens(snippet) == SelectSeq(snippet, LAMBDA b : b # NL)

ParseStruct(snippet) ==
    LET t == Tokens(snippet) IN
    IF /\ Len(t) >= 2
       /\ t[1] = "S"
       /\ t[Len(t)] = "E"
       /\ \A i \in 2..(Len(t) - 1) : t[i] \in FieldBytes
    THEN [ok |-> TRUE, sig |-> SubSeq(t, 2, Len(t) - 1)]
    ELSE [ok |-> FALSE, sig |-> <<>>]

\* ---------------------------------------------------------------- usize
ULt(a, b) == IF (a < 0) = (b < 0) THEN a < b ELSE b < 0
ULe(a, b) == a = b \/ ULt(a, b)

\* v += len / v -= len leaves the range of usize.
AddOverflows(v, len) == v < 0 /\ v + len >= 0
SubOverflows(v, len) == v >= 0 /\ v - len < 0

\* ------------------------------------------------- Repository::diff_blobs
\* The line-level diff of two blobs with no context lines: some shortest edit
\* script, reported hunk by hunk, the deletions of a hunk before its additions.
\* A deletion carries its offset in the old blob, an addition its offset in the
\* new blob (git_diff_line.content_offset).
RECURSIVE LcsLen(_, _)
LcsLen(a, b) ==
    IF a = <<>> \/ b = <<>> THEN 0
    ELSE IF Head(a) = Head(b) THEN 1 + LcsLen(Tail(a), Tail(b))
    ELSE LET l == LcsLen(Tail(a), b)
             r == LcsLen(a, Tail(b))
         IN IF l >= r THEN l ELSE r

RECURSIVE Scripts(_, _, _)
Scripts(a, b, afterAdd) ==
    IF a = <<>> /\ b = <<>> THEN {<<>>}
    ELSE (IF a # <<>> /\ ~afterAdd
          THEN {<<"D">> \o s : s \in Scripts(Tail(a), b, FALSE)} ELSE {})
         \cup
         (IF b # <<>>
          THEN {<<"A">> \o s : s \in Scripts(a, Tail(b), TRUE)} ELSE {})
         \cup
         (IF a # <<>> /\ b # <<>> /\ Head(a) = Head(b)
          THEN {<<"K">> \o s : s \in Scripts(Tail(a), Tail(b), FALSE)} ELSE {})

Keeps(s) == Len(SelectSeq(s, LAMBDA o : o = "K"))

RECURSIVE Emit(_, _, _, _, _)
Emit(s, a, b, oldOff, newOff) ==
    IF s = <<>> THEN <<>>
    ELSE IF Head(s) = "D"
    THEN <<[origin |-> "Deletion", content_offset |-> oldOff, len |-> Len(Head(a))]>>
         \o Emit(Tail(s), Tail(a), b, oldOff + Len(Head(a)), newOff)
    ELSE IF Head(s) = "A"
    THEN <<[origin |-> "Addition", content_offset |-> newOff, len |-> Len(Head(b))]>>
         \o Emit(Tail(s), a, Tail(b), oldOff, newOff + Len(Head(b)))
    ELSE Emit(Tail(s), Tail(a), Tail(b), oldOff + Len(Head(a)), newOff + Len(Head(b)))

diff_blobs(old, new) ==
    {Emit(s, old.lines, new.lines, 0, 0) :
        s \in {t \in Scripts(old.lines, new.lines, FALSE) :
                 Keeps(t) = LcsLen(old.lines, new.lines)}}

\* ------------------------------------------------------------ histories
\* A repository: commits 1..n numbered from the oldest to the newest, the head
\* being n; parents[c] the parents of c in their stored order; time[c] the
\* commit time; file[c] the entry of the tracked path in the tree of c.
Commits(r) == 1..r.n

\* Revwalk with Sort::TIME from the head: newest first.
RevwalkOrder(r) == [i \in 1..r.n |-> r.n + 1 - i]

RECURSIVE Ancestors(_, _)
Ancestors(par, c) ==
    {c} \cup UNION {Ancestors(par, par[c][k]) : k \in 1..Len(par[c])}

ParentLists(c) ==
    IF c = 1 THEN {<<>>}
    ELSE {<<p>> : p \in 1..(c - 1)}
         \cup {pq \in (1..(c - 1)) \X (1..(c - 1)) : pq[1] > pq[2]}

Dags(n) ==
    {par \in [1..n -> UNION {ParentLists(c) : c \in 1..n}] :
        /\ \A c \in 1..n : par[c] \in ParentLists(c)
        /\ Ancestors(par, n) = 1..n}

\* Commit times never decrease from parent to child; the two oldest commits may
\* carry the same time.
Times(n) ==
    {[c \in 1..n |-> c], [c \in 1..n |-> IF c = 1 THEN 1 ELSE c - 1]}

\* Files of the long histories: the struct after one or two unrelated lines, in
\* three shapes, a file with another line in the place of the struct, and no
\* file.
DeepFiles ==
    {NoFile, File(<<Y, X>>), File(<<Y, S0>>), File(<<Y, SA>>), File(<<Y, SAB>>),
     File(<<X, Y, SA>>)}

\* Files of the two-commit histories: every text of at most MaxLines lines.
WideLines == {X, Y, SA, SAB}
WideFiles == {File(ls) : ls \in UNION {[1..k -> WideLines] : k \in 1..MaxLines}}

Repo(n, par, tm, f) == [n |-> n, parents |-> par, time |-> tm, file |-> f]

\* main: the head's blob must contain the struct, or tracking is never called.
HeadSpan(r) == find_start_end(Content(r.file[r.n]), "S")

\* Repository::diff_tree_to_tree under the pathspec: the deltas are non-empty iff
\* the entry of the tracked path differs between the two trees.
TreeDiffers(r, parent, commit) == r.file[parent] # r.file[commit]

\* Pathspec::match_tree with NO_MATCH_ERROR: Ok iff the tree holds the path.
MatchTree(r, commit) == r.file[commit].present

\* ------------------------------------------------------------ the state
VARIABLES
    repo,            \* the repository (never written)
    pc,              \* position in tracking
    walk,            \* commits the revwalk has yet to yield
    count,           \* commits the revwalk has yielded
    prev_blob,       \* blob of the revision the span is valid for
    prev,            \* the first commit the filter yields (0: none yet)
    curr,            \* the commit of the current loop iteration (0: none yet)
    curr_blob,
    start, end,      \* the tracked span
    start_move, end_move,
    lines,           \* the lines diff_blobs reports for this iteration
    li,              \* index of the next line handed to the callback
    changes,         \* the HashMap: a set of entries [sig, id, time]
    report,          \* the list printed at the end
    outcome,         \* "running", "ok", "error" or "panic"
    err,             \* what failed
    overflow_checks, \* "unset" until an overflow decides it, then "on" or "off"
    faulted,         \* the repository has reported a failure
    selected,        \* history: commits yielded by the filter, in order
    failed,          \* history: commits whose evaluation met a repository failure
    extracted        \* history: [sig, id, time] of every insertion, in order

vars ==
    <<repo, pc, walk, count, prev, prev_blob, curr, curr_blob, start, end, start_move,
      end_move, lines, li, changes, report, outcome, err, overflow_checks, faulted,
      selected, failed, extracted>>

Init ==
    /\ \/ \E n \in 1..MaxCommits :
             \E par \in Dags(n), tm \in Times(n), f \in [1..n -> DeepFiles] :
                repo = Repo(n, par, tm, f)
       \/ \E f \in [1..2 -> WideFiles] :
             repo = Repo(2, <<<<>>, <<1>>>>, <<1, 2>>, f)
    /\ HeadSpan(repo).some
    /\ pc = "first"
    /\ walk = RevwalkOrder(repo)
    /\ count = 0
    /\ prev = 0
    /\ prev_blob = NoFile
    /\ curr = 0
    /\ curr_blob = NoFile
    /\ start = HeadSpan(repo).start
    /\ end = HeadSpan(repo).end
    /\ start_move = 0
    /\ end_move = 0
    /\ lines = <<>>
    /\ li = 1
    /\ changes = {}
    /\ report = <<>>
    /\ outcome = "running"
    /\ err = "none"
    /\ overflow_checks = "unset"
    /\ faulted = FALSE
    /\ selected = <<>>
    /\ failed = {}
    /\ extracted = <<>>

Stop(o, e) ==
    /\ outcome' = o
    /\ err' = e
    /\ pc' = "done"

\* ------------------------------------------------- the revision selector
match_with_parent(r, commit, parent) == TreeDiffers(r, parent, commit)

\* What the repository may fail at while one commit is evaluated: resolving the
\* commit or its tree, resolving the tree of its k-th parent, or comparing the
\* trees of the commit and its k-th parent.  A run meets at most one failure.
NoFault == [kind |-> "none", at |-> 0]
Faults(r, c) ==
    {NoFault}
    \cup (IF faulted
          THEN {}
          ELSE {[kind |-> "commit", at |-> 0]}
               \cup {[kind |-> k, at |-> i] :
                        k \in {"parent_tree", "diff"}, i \in 1..Len(r.parents[c])})

\* The closure handed to Iterator::all, for the k-th parent: parent.tree().unwrap()
\* panics, a failed comparison counts as false (unwrap_or(false)).
ParentResult(r, c, k, fault) ==
    IF fault.kind = "parent_tree" /\ fault.at = k THEN "panic"
    ELSE IF fault.kind = "diff" /\ fault.at = k THEN "false"
    ELSE IF match_with_parent(r, c, r.parents[c][k]) THEN "true" ELSE "false"

\* Iterator::any, left to right, stopping at the first result that is not false.
RECURSIVE AnyOf(_)
AnyOf(rs) ==
    IF rs = <<>> THEN "false"
    ELSE IF Head(rs) = "false" THEN AnyOf(Tail(rs)) ELSE Head(rs)

\* Iterator::all, left to right, stopping at the first result that is not true.
RECURSIVE AllOf(_)
AllOf(rs) ==
    IF rs = <<>> THEN "true"
    ELSE IF Head(rs) = "true" THEN AllOf(Tail(rs)) ELSE Head(rs)

ParentResults(r, c, fault) ==
    [k \in 1..Len(r.parents[c]) |-> ParentResult(r, c, k, fault)]

\* The filter_map closure: "yield" (Some(commit)), "drop" (None) or "panic".
Evaluate(r, c, fault) ==
    IF fault.kind = "commit" THEN "panic"
    ELSE IF r.parents[c] = <<>>
    THEN (IF MatchTree(r, c) THEN "yield" ELSE "drop")
    ELSE LET v == AllOf(ParentResults(r, c, fault))
         IN IF v = "true" THEN "yield" ELSE IF v = "false" THEN "drop" ELSE "panic"

\* The failing call is made: every parent before it compared as different.
Reached(r, c, fault) ==
    /\ fault.kind # "none"
    /\ \A k \in 1..(fault.at - 1) : ParentResult(r, c, k, fault) = "true"

FilterMap ==
    /\ pc \in {"first", "loop"}
    /\ walk # <<>>
    /\ \E fault \in Faults(repo, Head(walk)) :
         LET c == Head(walk)
             v == Evaluate(repo, c, fault)
             hit == Reached(repo, c, fault)
         IN /\ walk' = Tail(walk)
            /\ count' = count + 1
            /\ faulted' = (faulted \/ hit)
            /\ failed' = IF hit THEN failed \cup {c} ELSE failed
            /\ selected' = IF v = "yield" THEN Append(selected, c) ELSE selected
            /\ prev' = IF v = "yield" /\ pc = "first" THEN c ELSE prev
            /\ curr' = IF v = "yield" /\ pc = "loop" THEN c ELSE curr
            /\ IF v = "panic" THEN Stop("panic", "unwrap")
               ELSE /\ pc' = IF v = "drop" THEN pc
                             ELSE IF pc = "first" THEN "first_blob" ELSE "body"
                    /\ UNCHANGED <<outcome, err>>
    /\ UNCHANGED <<repo, prev_blob, curr_blob, start, end, start_move, end_move,
                   lines, li, changes, report, overflow_checks, extracted>>

\* An empty selection taken for an empty history: the empty report is printed.
NoCommitReportsNothing ==
    /\ pc = "first"
    /\ walk = <<>>
    /\ pc' = "report"
    /\ UNCHANGED <<repo, walk, count, prev, prev_blob, curr, curr_blob, start, end,
                   start_move, end_move, lines, li, changes, report, outcome, err,
                   overflow_checks, faulted, selected, failed, extracted>>

\* commits.next() is None: ok_or(anyhow!("rel sad"))
NoCommit ==
    /\ pc = "first"
    /\ walk = <<>>
    /\ Stop("error", "rel sad")
    /\ UNCHANGED <<repo, walk, count, prev, prev_blob, curr, curr_blob, start, end,
                   start_move, end_move, lines, li, changes, report,
                   overflow_checks, faulted, selected, failed, extracted>>

\* for curr in commits: the iterator is exhausted
LoopEnd ==
    /\ pc = "loop"
    /\ walk = <<>>
    /\ pc' = "report"
    /\ UNCHANGED <<repo, walk, count, prev, prev_blob, curr, curr_blob, start, end,
                   start_move, end_move, lines, li, changes, report, outcome, err,
                   overflow_checks, faulted, selected, failed, extracted>>

\* A path missing from the tree taken for an empty blob.
extract_blob_or_empty(r, commit) == [ok |-> TRUE, blob |-> r.file[commit]]

\* ------------------------------------------------------- the blob accessor
\* extract_blob: tree.get_path(path)? fails when the tree has no such entry.
extract_blob(r, commit) ==
    [ok |-> r.file[commit].present, blob |-> r.file[commit]]

FirstBlob ==
    /\ pc = "first_blob"
    /\ LET b == extract_blob(repo, prev)
       IN IF b.ok
          THEN /\ prev_blob' = b.blob
               /\ pc' = "loop"
               /\ UNCHANGED <<outcome, err>>
          ELSE /\ Stop("error", "blob")
               /\ UNCHANGED prev_blob
    /\ UNCHANGED <<repo, walk, count, prev, curr, curr_blob, start, end, start_move,
                   end_move, lines, li, changes, report, overflow_checks, faulted,
                   selected, failed, extracted>>

\* The head of the loop body: the blob of curr, the working copies of the span,
\* and the diff from prev_blob (old side) to curr_blob (new side).
Body ==
    /\ pc = "body"
    /\ LET b == extract_blob(repo, curr)
       IN IF b.ok
          THEN /\ curr_blob' = b.blob
               /\ start_move' = start
               /\ end_move' = end
               /\ lines' \in diff_blobs(prev_blob, b.blob)
               /\ li' = 1
               /\ pc' = "diff"
               /\ UNCHANGED <<outcome, err>>
          ELSE /\ Stop("error", "blob")
               /\ UNCHANGED <<curr_blob, start_move, end_move, lines, li>>
    /\ UNCHANGED <<repo, walk, count, prev, prev_blob, curr, start, end, changes,
                   report, overflow_checks, faulted, selected, failed, extracted>>

\* ------------------------------------------------------ the span translator
\* start > content_offset, end > content_offset, and the callback's result
\* content_offset <= end.
StartAffected(s, content_offset) == ULt(content_offset, s)
EndAffectedInclusive(e, content_offset) == ULe(content_offset, e)
EndAffected(e, content_offset) == ULt(content_offset, e)
Continue(e, content_offset) == ULe(content_offset, e)

Moved(v, l) == IF l.origin = "Addition" THEN v + l.len ELSE v - l.len
Overflows(v, l) ==
    IF l.origin = "Addition" THEN AddOverflows(v, l.len) ELSE SubOverflows(v, l.len)

\* The line callback of diff_blobs, for one line.  An operation that leaves the
\* range of usize panics where overflow checks are compiled in and wraps where
\* they are not; a callback that returns false makes diff_blobs return an error.
LineCb ==
    /\ pc = "diff"
    /\ li <= Len(lines)
    /\ LET l == lines[li]
           sHit == StartAffected(start, l.content_offset)
           eHit == EndAffected(end, l.content_offset)
           ov == (sHit /\ Overflows(start_move, l)) \/ (eHit /\ Overflows(end_move, l))
       IN \E checks \in {"on", "off"} :
            /\ overflow_checks \in {"unset", checks}
            /\ overflow_checks' = IF ov THEN checks ELSE overflow_checks
            /\ IF ov /\ checks = "on"
               THEN /\ Stop("panic", "overflow")
                    /\ UNCHANGED <<start_move, end_move, li>>
               ELSE /\ start_move' = IF sHit THEN Moved(start_move, l) ELSE start_move
                    /\ end_move' = IF eHit THEN Moved(end_move, l) ELSE end_move
                    /\ li' = li + 1
                    /\ IF Continue(end, l.content_offset)
                       THEN UNCHANGED <<pc, outcome, err>>
                       ELSE Stop("error", "diff")
    /\ UNCHANGED <<repo, walk, count, prev, prev_blob, curr, curr_blob, start, end,
                   lines, changes, report, faulted, selected, failed, extracted>>

\* ------------------------------------------- extraction and the collector
\* &curr_content[start..end] panics unless start <= end <= len.
SliceInBounds(content, from, to) ==
    /\ 0 <= from
    /\ from <= to
    /\ to <= Len(content)

InsertKeepBoth(map, key, id, time) ==
    map \cup {[sig |-> key, id |-> id, time |-> time]}

InsertKeepFirst(map, key, id, time) ==
    IF \E e \in map : e.sig = key THEN map
    ELSE map \cup {[sig |-> key, id |-> id, time |-> time]}

\* HashMap::insert: the entry of an equal key is replaced.
Insert(map, key, id, time) ==
    {e \in map : e.sig # key} \cup {[sig |-> key, id |-> id, time |-> time]}

\* The reference blob left at the first selected revision.
CarryFirst(prev_b, curr_b) == prev_b

\* prev_blob = curr_blob: the blob the new span was extracted from becomes the
\* reference of the next iteration.
Carry(prev_b, curr_b) == curr_b

\* The revision whose snippet does not parse is passed over and the loop goes on.
ParseFailureSkips == pc' = "loop" /\ UNCHANGED <<outcome, err>>

\* syn::parse_str(snippet).with_context(|| snippet.to_string())?: the error, with
\* the snippet (the slice of curr_blob at the new span) attached, is returned.
ParseFailure == Stop("error", "parse")

\* After diff_blobs returned Ok: the span is replaced, the walk stops on a
\* collapsed span, the snippet is parsed and its field list recorded.
DiffDone ==
    /\ pc = "diff"
    /\ li > Len(lines)
    /\ start' = start_move
    /\ end' = end_move
    /\ IF ULe(end_move, start_move)
       THEN /\ pc' = "report"
            /\ UNCHANGED <<outcome, err, changes, extracted, prev_blob>>
       ELSE IF ~SliceInBounds(Content(curr_blob), start_move, end_move)
       THEN /\ Stop("panic", "slice")
            /\ UNCHANGED <<changes, extracted, prev_blob>>
       ELSE LET s == ParseStruct(Slice(Content(curr_blob), start_move, end_move))
            IN IF ~s.ok
               THEN /\ ParseFailure
                    /\ UNCHANGED <<changes, extracted, prev_blob>>
               ELSE /\ changes' = Insert(changes, s.sig, curr, repo.time[curr])
                    /\ extracted' = Append(extracted,
                          [sig |-> s.sig, id |-> curr, time |-> repo.time[curr]])
                    /\ prev_blob' = Carry(prev_blob, curr_blob)
                    /\ pc' = "loop"
                    /\ UNCHANGED <<outcome, err>>
    /\ UNCHANGED <<repo, walk, count, prev, curr, curr_blob, start_move, end_move,
                   lines, li, report, overflow_checks, faulted, selected, failed>>

\* The map iterated and collected without the sort.
IterationOrders(map) ==
    {q \in [1..Cardinality(map) -> map] :
        \A i, j \in 1..Cardinality(map) : i # j => q[i] # q[j]}

\* into_iter().sorted_unstable_by_key(time.seconds()).map(|(k, _)| k): the map is
\* iterated in an arbitrary order and the sort is not stable, so entries of equal
\* time come in any order.
SortedOrders(map) ==
    {q \in [1..Cardinality(map) -> map] :
        /\ \A i, j \in 1..Cardinality(map) : i # j => q[i] # q[j]
        /\ \A i, j \in 1..Cardinality(map) : i < j => q[i].time <= q[j].time}

Report ==
    /\ pc = "report"
    /\ \E q \in SortedOrders(changes) :
         report' = [i \in 1..Len(q) |-> q[i].sig]
    /\ Stop("ok", "none")
    /\ UNCHANGED <<repo, walk, count, prev, prev_blob, curr, curr_blob, start, end,
                   start_move, end_move, lines, li, changes, overflow_checks,
                   faulted, selected, failed, extracted>>

Next ==
    \/ FilterMap
    \/ NoCommit
    \/ LoopEnd
    \/ FirstBlob
    \/ Body
    \/ LineCb
    \/ DiffDone
    \/ Report

Spec == Init /\ [][Next]_vars

\* ===================================================================
\* Properties
\* ===================================================================
Min(S) == CHOOSE x \in S : \A y \in S : x <= y
Max(S) == CHOOSE x \in S : \A y \in S : x >= y

\* The field list of the struct as it stands in the file of commit c.
Shape(r, c) ==
    LET content == Content(r.file[c])
        span == find_start_end(content, "S")
    IN ParseStruct(Slice(content, span.start, span.end))

Visited == Commits(repo) \ Range(walk)

\* Offset of the i-th line of a text, and the lines a span touches.
LineOff(ls, i) == Len(Flatten(SubSeq(ls, 1, i - 1)))
EntIdx(ls, s, e) ==
    {i \in 1..Len(ls) : LineOff(ls, i) < e /\ LineOff(ls, i) + Len(ls[i]) > s}

\* The diff of this iteration has been replayed to its end, or was cut short.
DiffEnded == pc = "diff" /\ li > Len(lines)
DiffCut == err \in {"diff", "overflow"}

\* ---- C1
\* C1: for a linear history of three commits with strictly increasing times,
\* each of which changes the field list of the struct and nothing else, and the
\* span of the struct in the head, a successful run in which the repository
\* reported no failure reports the three field lists, oldest first, the head's
\* included.
LinearThree ==
    /\ repo.n = 3
    /\ repo.parents = <<<<>>, <<1>>, <<2>>>>
    /\ repo.time = <<1, 2, 3>>
    /\ \A c \in 1..3 : Shape(repo, c).ok
    /\ \A c \in 1..3 : Len(repo.file[c].lines) = 2 /\ repo.file[c].lines[1] = Y
    /\ \A c, d \in 1..3 : c # d => Shape(repo, c).sig # Shape(repo, d).sig

C1_ReportHasThreeShapes ==
    (LinearThree /\ failed = {} /\ pc = "done" /\ outcome = "ok")
        => report = <<Shape(repo, 1).sig, Shape(repo, 2).sig, Shape(repo, 3).sig>>

\* ---- C2
\* C2: when the lines the span touches are the same in both blobs and every
\* reported line lies wholly outside them, the translation ends without a
\* failure and the translated span selects in the older blob the text the span
\* selects in the newer one.
OutsideOnly ==
    LET old == prev_blob.lines
        new == curr_blob.lines
        ent == EntIdx(old, start, end)
    IN /\ SliceInBounds(Content(prev_blob), start, end)
       /\ ent # {}
       /\ LET k1 == Min(ent) - 1
              m == Cardinality(ent)
          IN \E k2 \in 0..(Len(new) - m) :
                /\ SubSeq(new, k2 + 1, k2 + m) = SubSeq(old, k1 + 1, k1 + m)
                /\ \A i \in 1..Len(lines) :
                     LET l == lines[i]
                         lo == IF l.origin = "Deletion"
                               THEN LineOff(old, k1 + 1) ELSE LineOff(new, k2 + 1)
                         hi == IF l.origin = "Deletion"
                               THEN LineOff(old, k1 + m + 1) ELSE LineOff(new, k2 + m + 1)
                     IN l.content_offset + l.len <= lo \/ l.content_offset >= hi

C2_SameTextInOlderBlob ==
    ((DiffEnded \/ DiffCut) /\ OutsideOnly)
        => /\ DiffEnded
           /\ SliceInBounds(Content(curr_blob), start_move, end_move)
           /\ Slice(Content(curr_blob), start_move, end_move)
                = Slice(Content(prev_blob), start, end)

\* ---- C3
\* C3: no bound ever leaves the range of usize, and when a translation has run
\* to its end the bounds are within the older content or the span has
\* collapsed; the older content is never sliced out of bounds.
C3_TranslatedSpanInBounds ==
    /\ start_move >= 0
    /\ end_move >= 0
    /\ err \notin {"overflow", "slice"}
    /\ DiffEnded =>
         \/ /\ 0 <= start_move
            /\ start_move <= end_move
            /\ end_move <= Len(Content(curr_blob))
         \/ ULe(end_move, start_move)

\* ---- C4
\* C4: a reported line whose offset is strictly before start moves both
\* working bounds by exactly its length, up for an addition and down for a
\* deletion, and both stay in the range of usize.
C4_LinesBeforeStartShiftBoth ==
    [][(pc = "diff" /\ li <= Len(lines) /\ ULt(lines[li].content_offset, start))
        => /\ start_move' = Moved(start_move, lines[li])
           /\ end_move' = Moved(end_move, lines[li])
           /\ start_move' >= 0
           /\ end_move' >= 0]_vars

\* ---- C5
\* C5: when every reported line has an offset strictly greater than end (or
\* nothing is reported), the translation does not fail and leaves the span as
\* it was.
AllBeyondEnd == \A i \in 1..Len(lines) : ULt(end, lines[i].content_offset)

C5_LinesBeyondEndIgnored ==
    ((pc = "diff" \/ err = "diff") /\ AllBeyondEnd)
        => /\ err # "diff"
           /\ DiffEnded => (start_move = start /\ end_move = end)

\* ---- C6
\* C6 as stated: a reported line whose offset equals end moves the working end
\* by its length.
C6_LineAtEndMovesEnd ==
    [][(pc = "diff" /\ li <= Len(lines) /\ lines[li].content_offset = end)
        => end_move' = Moved(end_move, lines[li])]_vars

\* C6 amended: a reported line whose offset equals end moves neither working
\* bound, and the callback lets the enumeration go on.
C6_LineAtEndMovesNothing ==
    [][(pc = "diff" /\ li <= Len(lines) /\ lines[li].content_offset = end)
        => /\ start_move' = start_move
           /\ end_move' = end_move
           /\ li' = li + 1
           /\ pc' = "diff"
           /\ outcome' = "running"]_vars

C6_Witness ==
    /\ pc = "diff"
    /\ li > 1
    /\ lines[li - 1].content_offset = end
    /\ overflow_checks = "unset"

\* ---- C7
\* C7: a visited commit with parents is yielded by the filter iff the
\* comparison with every one of its parents reported a difference for the
\* tracked path (a comparison that failed reported none).
EvaluationPanicked(c) == outcome = "panic" /\ err = "unwrap" /\ c \in failed

C7_MergeFiltering ==
    \A c \in Visited :
        (repo.parents[c] # <<>> /\ ~EvaluationPanicked(c))
            => (c \in Range(selected)
                  <=> /\ c \notin failed
                      /\ \A k \in 1..Len(repo.parents[c]) :
                            TreeDiffers(repo, repo.parents[c][k], c))

C7_Witness ==
    \E c \in Visited :
        /\ Len(repo.parents[c]) = 2
        /\ failed = {}
        /\ c \notin Range(selected)
        /\ \E k \in 1..2 : ~TreeDiffers(repo, repo.parents[c][k], c)
        /\ \E k \in 1..2 : TreeDiffers(repo, repo.parents[c][k], c)

\* ---- C8
\* C8: a run in which the repository reported a failure while a commit was
\* evaluated ends in a fatal outcome.
C8_SelectorFailureIsFatal ==
    (pc = "done" /\ failed # {}) => outcome \in {"error", "panic"}

\* ---- C9
\* C9: the collector holds one entry per field list, every recorded field list
\* has one, and the entry carries the commit and time of the last insertion of
\* that field list, which is not younger than any other.
Occurrences(sig) == {i \in 1..Len(extracted) : extracted[i].sig = sig}

C9_LastWriteWins ==
    /\ \A e1, e2 \in changes : e1.sig = e2.sig => e1 = e2
    /\ \A i \in 1..Len(extracted) : \E e \in changes : e.sig = extracted[i].sig
    /\ \A e \in changes :
         /\ Occurrences(e.sig) # {}
         /\ e.id = extracted[Max(Occurrences(e.sig))].id
         /\ e.time = extracted[Max(Occurrences(e.sig))].time
         /\ \A i \in Occurrences(e.sig) : e.time <= extracted[i].time

C9_Witness ==
    \E e \in changes :
        /\ Cardinality(Occurrences(e.sig)) >= 2
        /\ \E i \in Occurrences(e.sig) : extracted[i].id # e.id

\* ---- C10
\* C10 as stated: the time stored for a field list is that of the most recent
\* commit at which it was extracted.
C10_MostRecentCommitStored ==
    \A e \in changes :
        e.time = Max({extracted[i].time : i \in Occurrences(e.sig)})

\* C10 amended: the commit stored for a field list is one at which it was
\* extracted, and its time is that of the oldest such commit.
C10_OldestCommitStored ==
    \A e \in changes :
        /\ \E i \in Occurrences(e.sig) : extracted[i].id = e.id
        /\ repo.time[e.id] = e.time
        /\ e.time = Min({extracted[i].time : i \in Occurrences(e.sig)})

C10_Witness ==
    /\ pc = "done"
    /\ outcome = "ok"
    /\ \E e \in changes :
         \E i \in Occurrences(e.sig) : extracted[i].time > e.time

\* ---- C11
\* The commit time the map holds for a signature.
RecordedTime(sig) == (CHOOSE e \in changes : e.sig = sig).time

\* C11: the list a successful run emits holds each signature of the map exactly
\* once and nothing else, and of two emitted signatures the one with the smaller
\* recorded time comes first.
C11_ReportOrdered ==
    (pc = "done" /\ outcome = "ok") =>
        /\ Len(report) = Cardinality(changes)
        /\ \A i \in 1..Len(report) : \E e \in changes : e.sig = report[i]
        /\ \A e \in changes :
              Cardinality({i \in 1..Len(report) : report[i] = e.sig}) = 1
        /\ \A i, j \in 1..Len(report) :
              RecordedTime(report[i]) < RecordedTime(report[j]) => i < j

\* A successful run that emitted two signatures of different recorded times.
C11_Witness ==
    /\ pc = "done" /\ outcome = "ok"
    /\ Len(report) >= 2
    /\ RecordedTime(report[1]) < RecordedTime(report[2])

\* ---- C12
\* The lines of the newer blob that make up the tracked entity, given that the
\* carried span selects a struct declaration of that blob.
OwnLines ==
    {i \in 1..Len(prev_blob.lines) :
        start <= LineOff(prev_blob.lines, i) /\ LineOff(prev_blob.lines, i) < end}

\* The older revision of this iteration does not hold the entity: the carried
\* span is exactly the struct declaration of the newer blob, every line of it is
\* reported as a deletion, and the older blob has no struct at all.
EntityDeleted ==
    /\ find_start_end(Content(prev_blob), "S") = [some |-> TRUE, start |-> start, end |-> end]
    /\ ParseStruct(Slice(Content(prev_blob), start, end)).ok
    /\ OwnLines # {}
    /\ \A i \in OwnLines : \E k \in 1..Len(lines) :
          /\ lines[k].origin = "Deletion"
          /\ lines[k].content_offset = LineOff(prev_blob.lines, i)
    /\ Find(Content(curr_blob), "S") = -1

\* The walk stopped on a collapsed span.
Collapsed == ULe(end, start)

\* C12: when the diff of an iteration whose older revision does not hold the
\* entity has been replayed to its end, without any arithmetic overflow and
\* without any failure reported by the repository, the translated span is
\* collapsed (end <= start); and a run that stopped on a
\* collapsed span has no error, selected no revision after the collapsing one,
\* recorded nothing for it, and ends ok with a report of exactly the signatures
\* collected before.
C12_CollapseIsNormalEnd ==
    /\ (DiffEnded /\ EntityDeleted /\ overflow_checks = "unset" /\ failed = {})
          => ULe(end_move, start_move)
    /\ Collapsed =>
          /\ pc \in {"report", "done"}
          /\ outcome \in {"running", "ok"} /\ err = "none"
          /\ selected[Len(selected)] = curr
          /\ \A i \in 1..Len(extracted) : extracted[i].id # curr
          /\ pc = "done" =>
                /\ outcome = "ok"
                /\ Range(report) = {e.sig : e \in changes}
                /\ Range(report) = {extracted[i].sig : i \in 1..Len(extracted)}

\* ---- C13
\* The diff of this iteration is done, the translated span is not collapsed and
\* the text it selects in the current blob is not a struct declaration.
SnippetInvalid ==
    /\ DiffEnded
    /\ ~ULe(end_move, start_move)
    /\ SliceInBounds(Content(curr_blob), start_move, end_move)
    /\ ~ParseStruct(Slice(Content(curr_blob), start_move, end_move)).ok

\* C13: when the text selected by the translated span is not a valid struct
\* declaration, the next step ends tracking with the parse error (whose snippet
\* is the slice of the current blob at the span then carried); nothing is
\* recorded for the revision, the walk yields no further commit, no report is
\* emitted, and no step follows the end of tracking.
C13_ParseFailureAborts ==
    [][/\ SnippetInvalid =>
            /\ pc' = "done" /\ outcome' = "error" /\ err' = "parse"
            /\ start' = start_move /\ end' = end_move
            /\ report' = <<>>
            /\ UNCHANGED <<changes, extracted, walk, count, selected, curr_blob>>
       /\ pc # "done"]_vars

\* Tracking ended with the parse error of a revision older commits come after.
C13_Witness ==
    /\ pc = "done" /\ outcome = "error" /\ err = "parse"
    /\ report = <<>>
    /\ walk # <<>>
    /\ ~ParseStruct(Slice(Content(curr_blob), start, end)).ok

\* ---- C14
\* The commit whose blob is about to be resolved does not hold the tracked path.
BlobMissing ==
    \/ pc = "first_blob" /\ ~repo.file[prev].present
    \/ pc = "body" /\ ~repo.file[curr].present

\* C14: when the tracked path cannot be resolved to a blob in the first selected
\* commit or in a later selected one, the next step ends tracking with the
\* resolution error: no diff is taken and no span translated for that commit,
\* nothing is recorded, the walk does not go on and no report is emitted.
C14_ResolutionErrorIsFatal ==
    [][BlobMissing =>
          /\ pc' = "done" /\ outcome' = "error" /\ err' = "blob"
          /\ report' = <<>>
          /\ UNCHANGED <<start, end, start_move, end_move, lines, li, prev_blob,
                         curr_blob, changes, extracted, walk, count>>]_vars

\* Tracking ended with the resolution error of a commit selected after the first.
C14_Witness ==
    /\ pc = "done" /\ outcome = "error" /\ err = "blob"
    /\ Len(selected) >= 2
    /\ ~repo.file[curr].present
    /\ report = <<>>

\* ---- C15
\* The revision selector came to the end of the walk without yielding a commit.
NothingSelected == pc = "first" /\ walk = <<>>

\* C15: when the selector yields no commit at all, the next step ends tracking
\* with an error; no blob has been or is resolved, no diff taken, no span
\* translated, nothing extracted and no report emitted.
C15_NoCommitIsFatal ==
    [][NothingSelected =>
          /\ pc' = "done" /\ outcome' = "error" /\ err' = "rel sad"
          /\ selected' = <<>>
          /\ prev_blob' = NoFile /\ curr_blob' = NoFile
          /\ lines' = <<>>
          /\ start' = HeadSpan(repo).start /\ end' = HeadSpan(repo).end
          /\ changes' = {} /\ extracted' = <<>> /\ report' = <<>>]_vars

\* Tracking ended with that error after the walk went through every commit.
C15_Witness ==
    /\ pc = "done" /\ outcome = "error" /\ err = "rel sad"
    /\ count = repo.n
    /\ selected = <<>>

\* ---- C16
\* C16: a reported line whose offset o satisfies start <= o < end leaves the
\* working start as it is and moves the working end by exactly its length, up
\* for an addition and down for a deletion, the end staying in the range of
\* usize.
C16_LinesInsideMoveEndOnly ==
    [][(/\ pc = "diff" /\ li <= Len(lines)
        /\ ULe(start, lines[li].content_offset)
        /\ ULt(lines[li].content_offset, end))
        => /\ start_move' = start_move
           /\ end_move' = Moved(end_move, lines[li])
           /\ end_move' >= 0]_vars

\* ---- C17
\* The revision the carried span stands for: the last one recorded, or the first
\* selected one while nothing is recorded.
SpanRevision ==
    IF extracted = <<>> THEN selected[1] ELSE extracted[Len(extracted)].id

\* C17: from the start of each loop iteration to the end of its diff, prev_blob
\* is the blob of the revision the carried span stands for; that span is the
\* caller's while nothing is recorded, and afterwards the one whose text in
\* prev_blob was parsed and recorded last; the revisions recorded are the
\* selected ones after the first, in order, none skipped or repeated; and the
\* diff of the iteration goes from prev_blob to the blob of the next selected
\* revision.
C17_SpanAndBlobInStep ==
    (pc \in {"loop", "body", "diff"}) =>
        /\ prev_blob = repo.file[SpanRevision]
        /\ IF extracted = <<>>
           THEN /\ SpanRevision = prev
                /\ start = HeadSpan(repo).start /\ end = HeadSpan(repo).end
           ELSE /\ SliceInBounds(Content(prev_blob), start, end)
                /\ ParseStruct(Slice(Content(prev_blob), start, end)) =
                      [ok |-> TRUE, sig |-> extracted[Len(extracted)].sig]
        /\ [i \in 1..Len(extracted) |-> extracted[i].id] =
              SubSeq(selected, 2, Len(extracted) + 1)
        /\ pc = "loop" => Len(selected) = Len(extracted) + 1
        /\ pc \in {"body", "diff"} =>
              /\ Len(selected) = Len(extracted) + 2
              /\ curr = selected[Len(selected)]
        /\ pc = "diff" =>
              /\ curr_blob = repo.file[curr]
              /\ lines \in diff_blobs(prev_blob, curr_blob)

\* The diff of an iteration after one that recorded a signature, between two
\* different blobs.
C17_Witness ==
    /\ pc = "diff"
    /\ extracted # <<>>
    /\ prev_blob # repo.file[prev]
    /\ lines # <<>>

\* ---- C18
\* The lists the report step can emit for a map, over the orders in which the
\* map can be iterated.
Reports(map) == {[i \in 1..Len(q) |-> q[i].sig] : q \in SortedOrders(map)}

\* C18: when tracking comes to emit its report, the history and the initial span
\* leave one list only that it can emit, whatever the iteration order of the
\* map, equal recorded times included: two runs emit the same list.
C18_ReportDetermined ==
    pc = "report" => Cardinality(Reports(changes)) = 1

====
